---- MODULE Spec2Model ----
(***************************************************************************)
(* Model of the OCPP 1.6 charge-point engine (class ChargePoint).          *)
(*                                                                         *)
(* One action per handler: user operations, socket events (open, error,    *)
(* message, close), the heartbeat interval timer and the continuations of  *)
(* the timed waits of the async handlers.  A handler runs to completion    *)
(* (single-threaded event loop); an async handler is split at its awaits.  *)
(* Time is counted in seconds by Tick; a timer that is due fires before    *)
(* time advances.                                                          *)
(***************************************************************************)
EXTENDS Integers, Sequences, FiniteSets, TLC

(* ------------------------------ bounds --------------------------------- *)
MaxPending  == 3     \* CALLs sent and not yet answered by the server
MaxOps      == 3     \* user operations and server requests in a run

(* ---------------------- constants of the program ----------------------- *)
CP_DISCONNECTED == "Disconnected"
CP_CONNECTING   == "Connecting"
CP_CONNECTED    == "Connected"
CP_AUTHORIZED   == "Authorized"
CP_INTRANSACTION == "InTransaction"
CP_ERROR        == "Error"

CONN_AVAILABLE   == "Available"
CONN_CHARGING    == "Charging"
CONN_FINISHING   == "Finishing"
CONN_UNAVAILABLE == "Unavailable"

AVAILABITY_OPERATIVE   == "Operative"
AVAILABITY_INOPERATIVE == "Inoperative"

BOOT_NOTIFICATION  == "BootNotification"
AUTHORIZE          == "Authorize"
START_TRANSACTION  == "StartTransaction"
STOP_TRANSACTION   == "StopTransaction"
HEARTBEAT          == "Heartbeat"
METERVALUES        == "MeterValues"
STATUSNOTIFICATION == "StatusNotification"

CLEAN_CLOSE == 3001  \* close code of an intentional disconnect
STOP_WAIT   == 1     \* seconds of each wait of stopTransactionWithId

(* ------------------------------ inputs --------------------------------- *)
ConnIds    == {0, 1, 2}     \* the charge point and its two connectors
TxIds      == {0, 42}       \* transaction ids a server assigns
Intervals  == {1, 2}        \* heartbeat intervals (seconds)
Delays     == {0, 1}        \* remote-start plug-in delays (seconds)
Tags       == {"TAG1"}
MsgIds     == {"id1", "id2"}
CloseCodes == {CLEAN_CLOSE, 1006}
Availabilities == {AVAILABITY_OPERATIVE, AVAILABITY_INOPERATIVE}
Policies   == {"Accepted", "Rejected"}
IdTagStatuses == {"Accepted", "Invalid", "Blocked"}

NoTx    == -1        \* no TransactionId in session storage / in a payload
NoTimer == 0         \* this._heartbeat == null

(* readyState of this._websocket; "none" is this._websocket == null *)
WsStates == {"none", "connecting", "open", "closing"}

VARIABLES
    websocket,     \* this._websocket: "none" or the socket's ready state
    sockets,       \* WebSocket objects created and not yet closed
    heartbeat,     \* this._heartbeat: handle of the interval timer, or NoTimer
    timers,        \* interval timers alive in the event loop
    timerSeq,      \* the last timer handle setInterval returned
    remoteStartStopResponse,   \* this._remoteStartStopResponse
    remoteStartDelaySeconds,   \* this._remoteStartDelaySeconds
    availabilityChangeCb,      \* an availability-change observer is registered
    cpStatus,      \* session key KEY_CP_STATUS
    lastAction,    \* session key "LastAction" (PendingAction)
    transactionId, \* session key "TransactionId"
    connStatus,    \* session keys KEY_CONN_STATUS + c
    connAvail,     \* local keys KEY_CONN_AVAILABILITY + c
    pending,       \* actions of the CALLs the server has received and not answered
    waits,         \* timed waits (setTimeout promises) in flight, oldest first
    out,           \* what the last handler emitted
    last,          \* the last handler run and its inputs
    ops,           \* user operations and server requests so far
    codec          \* a CALL on its way through JSON.stringify and onmessage

vars == <<websocket, sockets, heartbeat, timers, timerSeq, remoteStartStopResponse,
          remoteStartDelaySeconds, availabilityChangeCb, cpStatus, lastAction,
          transactionId, connStatus, connAvail, pending, waits, out, last, ops,
          codec>>

(* ------------------------------ frames --------------------------------- *)
\* [2, id, action, payload]; the id of an outbound CALL is a random token
Call(action, c, status, tid, tag) ==
    [mt |-> 2, id |-> "generated", action |-> action, c |-> c,
     status |-> status, tid |-> tid, tag |-> tag]

\* [3, id, {status: ...}]
CallResult(id, status) ==
    [mt |-> 3, id |-> id, action |-> "", c |-> -1,
     status |-> status, tid |-> NoTx, tag |-> ""]

\* [4, id, errorCode]
CallError(id, code) ==
    [mt |-> 4, id |-> id, action |-> "", c |-> -1,
     status |-> code, tid |-> NoTx, tag |-> ""]

\* payload of an incoming CALLRESULT; "" / 0 / NoTx is an absent field
Payload(status, interval, idTagStatus, tid) ==
    [status |-> status, interval |-> interval,
     idTagInfo |-> idTagStatus, transactionId |-> tid]

\* the payloads a server answers a CALL of the given action with
ServerPayloads(action) ==
    CASE action = BOOT_NOTIFICATION ->
            {Payload("Accepted", n, "", NoTx) : n \in Intervals}
            \cup {Payload("Rejected", 0, "", NoTx)}
      [] action = AUTHORIZE ->
            {Payload("", 0, s, NoTx) : s \in IdTagStatuses}
      [] action = START_TRANSACTION ->
            {Payload("", 0, "Accepted", t) : t \in TxIds}
      [] OTHER -> {Payload("", 0, "", NoTx)}

(* ------------------------------- codec --------------------------------- *)
\* a JavaScript value: t is its type
Js(t, n, s, kids) == [t |-> t, n |-> n, s |-> s, kids |-> kids]

JsNumber(n) == Js("number", n, "", <<>>)
JsNaN       == Js("NaN", 0, "", <<>>)
JsString(s) == Js("string", 0, s, <<>>)
JsNull      == Js("null", 0, "", <<>>)
JsUndefined == Js("undefined", 0, "", <<>>)

\* a property of an object, or an element of an array (key "")
Member(key, val) == [key |-> key, val |-> val]
JsObject(members) == Js("object", 0, "", members)
JsArray(elements) ==
    Js("array", 0, "", [i \in 1..Len(elements) |-> Member("", elements[i])])

\* a token of a JSON text
Tok(k, n, s) == [k |-> k, n |-> n, s |-> s]
Punct(k) == Tok(k, 0, "")

\* JSON.stringify: NaN and an undefined array element become null, an
\* undefined property is left out
RECURSIVE stringify(_)
RECURSIVE stringifyList(_, _)
stringify(v) ==
    CASE v.t = "number" -> <<Tok("num", v.n, "")>>
      [] v.t = "string" -> <<Tok("str", 0, v.s)>>
      [] v.t = "array"  ->
            <<Punct("[")>> \o stringifyList(v.kids, FALSE) \o <<Punct("]")>>
      [] v.t = "object" ->
            <<Punct("{")>>
            \o stringifyList(SelectSeq(v.kids, LAMBDA m : m.val.t # "undefined"),
                             TRUE)
            \o <<Punct("}")>>
      [] OTHER -> <<Punct("null")>>

stringifyList(kids, withKeys) ==
    IF kids = <<>> THEN <<>>
    ELSE (IF withKeys THEN <<Tok("str", 0, Head(kids).key), Punct(":")>> ELSE <<>>)
         \o stringify(Head(kids).val)
         \o (IF Len(kids) > 1
             THEN <<Punct(",")>> \o stringifyList(Tail(kids), withKeys)
             ELSE <<>>)

\* JSON.parse of a text JSON.stringify wrote: the value and the tokens left
RECURSIVE parseValue(_)
RECURSIVE parseList(_, _, _)
parseValue(ts) ==
    LET h == Head(ts)
    IN  CASE h.k = "num" -> [val |-> JsNumber(h.n), rest |-> Tail(ts)]
          [] h.k = "str" -> [val |-> JsString(h.s), rest |-> Tail(ts)]
          [] h.k = "["   -> parseList(Tail(ts), FALSE, <<>>)
          [] h.k = "{"   -> parseList(Tail(ts), TRUE, <<>>)
          [] OTHER       -> [val |-> JsNull, rest |-> Tail(ts)]

parseList(ts, withKeys, acc) ==
    IF Head(ts).k = (IF withKeys THEN "}" ELSE "]")
    THEN [val |-> Js(IF withKeys THEN "object" ELSE "array", 0, "", acc),
          rest |-> Tail(ts)]
    ELSE LET ts1 == IF Head(ts).k = "," THEN Tail(ts) ELSE ts
             key == IF withKeys THEN Head(ts1).s ELSE ""
             ts2 == IF withKeys THEN Tail(Tail(ts1)) ELSE ts1
             r   == parseValue(ts2)
         IN  parseList(r.rest, withKeys, Append(acc, Member(key, r.val)))

JSONparse(ts) == parseValue(ts).val

\* parseInt(getSessionKey("TransactionId")): NaN when no id is stored
parseIntKey(tid) == IF tid = NoTx THEN JsNaN ELSE JsNumber(tid)

\* the timestamp luxon.DateTime.utc().toISO() returns
Timestamp == JsString("2026-01-01T00:00:00.000Z")

\* the payload objects the operations build
AuthorizePayload(tagId) == JsObject(<<Member("idTag", JsString(tagId))>>)

BootNotificationPayload ==
    JsObject(<<Member("chargePointVendor", JsString("ocpp-cp-simulator")),
               Member("chargePointModel", JsString("JAVASCRIPT SIMULATOR")),
               Member("chargePointSerialNumber", JsString("TEST_00000001")),
               Member("chargeBoxSerialNumber", JsString("TEST_00000001")),
               Member("firmwareVersion", JsString("1.0.0")),
               Member("iccid", JsString("")),
               Member("imsi", JsString("")),
               Member("meterType", JsString("")),
               Member("meterSerialNumber", JsString(""))>>)

HeartbeatPayload == JsObject(<<>>)

StartTransactionPayload(tagId, connectorId, mv) ==
    JsObject(<<Member("connectorId", JsNumber(connectorId)),
               Member("idTag", JsString(tagId)),
               Member("meterStart", JsNumber(mv)),
               Member("timestamp", Timestamp)>>)

\* stopParams; idTag is added unless isEmpty(tagId)
StopTransactionPayload(tid, tagId, mv) ==
    JsObject(<<Member("transactionId", parseIntKey(tid)),
               Member("timestamp", Timestamp),
               Member("meterStop", JsNumber(mv))>>
             \o (IF tagId = "" THEN <<>>
                 ELSE <<Member("idTag", JsString(tagId))>>))

MeterValuesPayload(connectorId, tid, meter) ==
    JsObject(<<Member("connectorId", JsNumber(connectorId)),
               Member("transactionId", parseIntKey(tid)),
               Member("meterValue", JsArray(<<
                   JsObject(<<
                       Member("sampledValue", JsArray(<<
                           JsObject(<<
                               Member("value", JsString(meter)),
                               Member("context", JsString("Sample.Periodic")),
                               Member("measurand",
                                      JsString("Energy.Active.Import.Register")),
                               Member("location", JsString("Outlet")),
                               Member("unit", JsString("kWh"))>>)>>)),
                       Member("timestamp", Timestamp)>>)>>))>>)

StatusNotificationPayload(c, st) ==
    JsObject(<<Member("connectorId", JsNumber(c)),
               Member("errorCode", JsString("NoError")),
               Member("status", JsString(st)),
               Member("timestamp", Timestamp)>>)

\* JSON.stringify([2, id, action, payload])
EncodeCall(id, action, payload) ==
    stringify(JsArray(<<JsNumber(2), JsString(id), JsString(action), payload>>))

\* what onmessage passes to handleCallRequest for a frame of message type 2
Delivered(mt, id, request, payload) ==
    [mt |-> mt, id |-> id, request |-> request, payload |-> payload]

NotDelivered == Delivered(JsUndefined, JsUndefined, JsUndefined, JsUndefined)

onmessage(msg) ==
    LET ddata == JSONparse(msg).kids
        msgType == ddata[1].val
    IN  IF msgType = JsNumber(2)
        THEN Delivered(msgType, ddata[2].val, ddata[3].val,
                       IF Len(ddata) > 3 THEN ddata[4].val ELSE JsNull)
        ELSE NotDelivered

\* a CALL of the codec: built, then encoded, then decoded
CodecCall(stage, id, action, payload, frame, delivered) ==
    [stage |-> stage, id |-> id, action |-> action, payload |-> payload,
     frame |-> frame, delivered |-> delivered]

NoCodec == CodecCall("idle", "", "", JsNull, <<>>, NotDelivered)

(* ------------------- the engine state inside a handler ----------------- *)
EmptyOut == [sent |-> <<>>, status |-> <<>>, avail |-> <<>>]

Cur ==
    [websocket |-> websocket, sockets |-> sockets,
     heartbeat |-> heartbeat, timers |-> timers,
     timerSeq |-> timerSeq,
     cpStatus |-> cpStatus, lastAction |-> lastAction,
     transactionId |-> transactionId, connStatus |-> connStatus,
     connAvail |-> connAvail, pending |-> pending, waits |-> waits,
     out |-> EmptyOut, thrown |-> FALSE]

Commit(s) ==
    /\ websocket' = s.websocket
    /\ sockets' = s.sockets
    /\ heartbeat' = s.heartbeat
    /\ timers' = s.timers
    /\ timerSeq' = s.timerSeq
    /\ cpStatus' = s.cpStatus
    /\ lastAction' = s.lastAction
    /\ transactionId' = s.transactionId
    /\ connStatus' = s.connStatus
    /\ connAvail' = s.connAvail
    /\ pending' = s.pending
    /\ waits' = s.waits
    /\ out' = s.out

\* op: the handler; id, request, arg, c, n: its inputs (n of a result: the
\* heartbeat handle held when it was dispatched; n of a timer: the seconds it
\* waited); payload: the result payload; answers: the action of the CALL a
\* result answers; la: LastAction when the result was dispatched; thrown: the
\* handler ended by an exception
NoLast ==
    [op |-> "", id |-> "", request |-> "", arg |-> "", c |-> -1, n |-> -1,
     payload |-> Payload("", 0, "", NoTx), answers |-> "", la |-> "",
     thrown |-> FALSE]

(* --------------------------- ChargePoint ------------------------------- *)
setStatus(s, v) ==
    IF s.thrown THEN s
    ELSE [s EXCEPT !.cpStatus = v, !.out.status = Append(@, v)]

setLastAction(s, action) ==
    IF s.thrown THEN s ELSE [s EXCEPT !.lastAction = action]

\* wsSendData that drops the data when there is no connection
wsSendData_DropsNoConnection(s, data) ==
    IF s.thrown THEN s
    ELSE CASE s.websocket = "none" ->
                [s EXCEPT !.out.sent = Append(@, [frame |-> data, tx |-> "dropped"])]
           [] s.websocket = "connecting" ->
                [s EXCEPT !.out.sent = Append(@, [frame |-> data, tx |-> "throw"]),
                          !.thrown = TRUE]
           [] s.websocket = "open" ->
                [s EXCEPT !.out.sent = Append(@, [frame |-> data, tx |-> "sent"]),
                          !.pending = IF data.mt = 2 THEN Append(@, data.action)
                                      ELSE @]
           [] OTHER ->
                [s EXCEPT !.out.sent = Append(@, [frame |-> data, tx |-> "dropped"])]

\* WebSocket.send: throws while CONNECTING, discards while CLOSING or CLOSED
\* wsSendData that throws when there is no connection
wsSendData_ThrowsNoConnection(s, data) ==
    IF s.thrown THEN s
    ELSE CASE s.websocket = "none" ->
                [s EXCEPT !.out.sent = Append(@, [frame |-> data, tx |-> "throw"]),
                          !.thrown = TRUE]
           [] s.websocket = "connecting" ->
                [s EXCEPT !.out.sent = Append(@, [frame |-> data, tx |-> "throw"]),
                          !.thrown = TRUE]
           [] s.websocket = "open" ->
                [s EXCEPT !.out.sent = Append(@, [frame |-> data, tx |-> "sent"]),
                          !.pending = IF data.mt = 2 THEN Append(@, data.action)
                                      ELSE @]
           [] OTHER ->
                [s EXCEPT !.out.sent = Append(@, [frame |-> data, tx |-> "dropped"])]

wsSendData(s, data) ==
    IF s.thrown THEN s
    ELSE CASE s.websocket = "none" ->
                setStatus([s EXCEPT !.out.sent =
                               Append(@, [frame |-> data, tx |-> "noconn"])],
                          CP_ERROR)
           [] s.websocket = "connecting" ->
                [s EXCEPT !.out.sent = Append(@, [frame |-> data, tx |-> "throw"]),
                          !.thrown = TRUE]
           [] s.websocket = "open" ->
                [s EXCEPT !.out.sent = Append(@, [frame |-> data, tx |-> "sent"]),
                          !.pending = IF data.mt = 2 THEN Append(@, data.action)
                                      ELSE @]
           [] OTHER ->
                [s EXCEPT !.out.sent = Append(@, [frame |-> data, tx |-> "dropped"])]

sendStatusNotification(s, c) ==
    LET st == s.connStatus[c]
        s1 == setLastAction(s, STATUSNOTIFICATION)
    IN  wsSendData(s1, Call(STATUSNOTIFICATION, c, st, NoTx, ""))

setConnectorStatus(s, c, newStatus, updateServer) ==
    IF s.thrown THEN s
    ELSE LET s1 == [s EXCEPT !.connStatus[c] = newStatus]
         IN  IF updateServer THEN sendStatusNotification(s1, c) ELSE s1

sendMeterValue(s, connectorId) ==
    LET s1 == setLastAction(s, METERVALUES)
    IN  wsSendData(s1, Call(METERVALUES, connectorId, "", s.transactionId, ""))

\* setConnectorAvailability that marks the connector without telling the server
RECURSIVE setConnectorAvailability_Silent(_, _, _)
setConnectorAvailability_Silent(s, c, newAvailability) ==
    IF s.thrown THEN s
    ELSE LET s1 == [s EXCEPT !.connAvail[c] = newAvailability]
             s2 == IF newAvailability = AVAILABITY_INOPERATIVE
                   THEN setConnectorStatus(s1, c, CONN_UNAVAILABLE, FALSE)
                   ELSE s1
             s3 == IF availabilityChangeCb /\ ~s2.thrown
                   THEN [s2 EXCEPT !.out.avail = Append(@, <<c, newAvailability>>)]
                   ELSE s2
         IN  IF c = 0
             THEN setConnectorAvailability_Silent(
                      setConnectorAvailability_Silent(s3, 1, newAvailability),
                      2, newAvailability)
             ELSE s3

\* setConnectorAvailability that cascades from connector 0 to connector 1 only
RECURSIVE setConnectorAvailability_OneConnector(_, _, _)
setConnectorAvailability_OneConnector(s, c, newAvailability) ==
    IF s.thrown THEN s
    ELSE LET s1 == [s EXCEPT !.connAvail[c] = newAvailability]
             s2 == IF newAvailability = AVAILABITY_INOPERATIVE
                   THEN setConnectorStatus(s1, c, CONN_UNAVAILABLE, TRUE)
                   ELSE s1
             s3 == IF availabilityChangeCb /\ ~s2.thrown
                   THEN [s2 EXCEPT !.out.avail = Append(@, <<c, newAvailability>>)]
                   ELSE s2
         IN  IF c = 0
             THEN setConnectorAvailability_OneConnector(s3, 1, newAvailability)
             ELSE s3

\* setConnectorAvailability whose second branch tests Operative
RECURSIVE setConnectorAvailability_RestoresAvailable(_, _, _)
setConnectorAvailability_RestoresAvailable(s, c, newAvailability) ==
    IF s.thrown THEN s
    ELSE LET s1 == [s EXCEPT !.connAvail[c] = newAvailability]
             s2 == IF newAvailability = AVAILABITY_INOPERATIVE
                   THEN setConnectorStatus(s1, c, CONN_UNAVAILABLE, TRUE)
                   ELSE IF newAvailability = AVAILABITY_OPERATIVE
                        THEN setConnectorStatus(s1, c, CONN_AVAILABLE, TRUE)
                        ELSE s1
             s3 == IF availabilityChangeCb /\ ~s2.thrown
                   THEN [s2 EXCEPT !.out.avail = Append(@, <<c, newAvailability>>)]
                   ELSE s2
         IN  IF c = 0
             THEN setConnectorAvailability_RestoresAvailable(
                      setConnectorAvailability_RestoresAvailable(s3, 1, newAvailability),
                      2, newAvailability)
             ELSE s3

RECURSIVE setConnectorAvailability(_, _, _)
setConnectorAvailability(s, c, newAvailability) ==
    IF s.thrown THEN s
    ELSE LET s1 == [s EXCEPT !.connAvail[c] = newAvailability]
             s2 == IF newAvailability = AVAILABITY_INOPERATIVE
                   THEN setConnectorStatus(s1, c, CONN_UNAVAILABLE, TRUE)
                   ELSE IF newAvailability = AVAILABITY_INOPERATIVE
                        THEN setConnectorStatus(s1, c, CONN_AVAILABLE, TRUE)
                        ELSE s1
             s3 == IF availabilityChangeCb /\ ~s2.thrown
                   THEN [s2 EXCEPT !.out.avail = Append(@, <<c, newAvailability>>)]
                   ELSE s2
         IN  IF c = 0
             THEN setConnectorAvailability(
                      setConnectorAvailability(s3, 1, newAvailability),
                      2, newAvailability)
             ELSE s3

authorize(s, tagId) ==
    LET s1 == setLastAction(s, AUTHORIZE)
    IN  wsSendData(s1, Call(AUTHORIZE, -1, "", NoTx, tagId))

\* startTransaction without its closing setLastAction
startTransaction_NoLastAction(s, tagId, connectorId) ==
    LET s1 == setStatus(s, CP_INTRANSACTION)
        s2 == wsSendData(s1, Call(START_TRANSACTION, connectorId, "", NoTx, tagId))
    IN  setConnectorStatus(s2, connectorId, CONN_CHARGING, TRUE)

startTransaction(s, tagId, connectorId) ==
    LET s1 == setStatus(s, CP_INTRANSACTION)
        s2 == wsSendData(s1, Call(START_TRANSACTION, connectorId, "", NoTx, tagId))
        s3 == setConnectorStatus(s2, connectorId, CONN_CHARGING, TRUE)
    IN  setLastAction(s3, START_TRANSACTION)

\* a timed wait: `remaining` seconds to go, `elapsed` seconds since the
\* operation that started the chain of waits
Wait(kind, tag, remaining, elapsed) ==
    [kind |-> kind, tag |-> tag, remaining |-> remaining, elapsed |-> elapsed]

\* stopTransactionWithId with the status set after the send
stopTransactionWithId_StatusLate(s, tid, tagId) ==
    LET s1 == setLastAction(s, STOP_TRANSACTION)
        s2 == wsSendData(s1, Call(STOP_TRANSACTION, -1, "", tid, tagId))
        s3 == setStatus(s2, CP_AUTHORIZED)
    IN  IF s3.thrown THEN s3
        ELSE [s3 EXCEPT !.waits = Append(@, Wait("stopFinishing", "", STOP_WAIT, 0))]

\* stopTransactionWithId up to its first await
stopTransactionWithId(s, tid, tagId) ==
    LET s1 == setLastAction(s, STOP_TRANSACTION)
        s2 == setStatus(s1, CP_AUTHORIZED)
        s3 == wsSendData(s2, Call(STOP_TRANSACTION, -1, "", tid, tagId))
    IN  IF s3.thrown THEN s3
        ELSE [s3 EXCEPT !.waits = Append(@, Wait("stopFinishing", "", STOP_WAIT, 0))]

stopTransaction(s, tagId) ==
    stopTransactionWithId(s, s.transactionId, tagId)

sendBootNotification(s) ==
    LET s1 == setLastAction(s, BOOT_NOTIFICATION)
    IN  wsSendData(s1, Call(BOOT_NOTIFICATION, -1, "", NoTx, ""))

sendHeartbeat(s) ==
    LET s1 == setLastAction(s, HEARTBEAT)
    IN  wsSendData(s1, Call(HEARTBEAT, -1, "", NoTx, ""))

triggerMessage(s, requestedMessage, c) ==
    CASE requestedMessage = "BootNotification"   -> sendBootNotification(s)
      [] requestedMessage = "Heartbeat"          -> sendHeartbeat(s)
      [] requestedMessage = "MeterValues"        -> sendMeterValue(s, c)
      [] requestedMessage = "StatusNotification" -> sendStatusNotification(s, c)
      [] OTHER -> s

\* setInterval: a new timer under the next handle
setInterval(s, period) ==
    [s EXCEPT !.timerSeq = @ + 1,
              !.timers = @ \cup {[id |-> s.timerSeq + 1, period |-> period,
                                  remaining |-> period, elapsed |-> 0]}]

clearInterval(ts, handle) == {t \in ts : t.id # handle}

\* setHeartbeat that starts a timer and lets the previous one run
setHeartbeat_KeepsPrevious(s, period) ==
    IF s.thrown THEN s
    ELSE LET s2 == setInterval(s, period)
         IN  [s2 EXCEPT !.heartbeat = s2.timerSeq]

setHeartbeat(s, period) ==
    IF s.thrown THEN s
    ELSE LET s1 == IF s.heartbeat # NoTimer
                   THEN [s EXCEPT !.timers = clearInterval(@, s.heartbeat)]
                   ELSE s
             s2 == setInterval(s1, period)
         IN  [s2 EXCEPT !.heartbeat = s2.timerSeq]

\* WebSocket.close: the close event follows later
wsClose(s) ==
    IF s.thrown THEN s ELSE [s EXCEPT !.websocket = "closing"]

wsDisconnect(s) ==
    LET s1 == IF s.websocket # "none" THEN wsClose(s) ELSE s
    IN  setStatus(s1, CP_DISCONNECTED)

\* handleCallResult that takes the interval of every boot result
handleCallResult_AnyBootSetsHeartbeat(s, payload) ==
    LET la == s.lastAction
    IN  CASE la = BOOT_NOTIFICATION ->
                IF payload.status = "Accepted"
                THEN setStatus(setHeartbeat(s, payload.interval), CP_CONNECTED)
                ELSE wsDisconnect(setHeartbeat(s, payload.interval))
          [] la = AUTHORIZE ->
                IF payload.idTagInfo = ""
                THEN [s EXCEPT !.thrown = TRUE]
                ELSE IF payload.idTagInfo = "Invalid" THEN s
                     ELSE setStatus(s, CP_AUTHORIZED)
          [] la = START_TRANSACTION ->
                IF payload.transactionId = NoTx \/ payload.transactionId = 0
                THEN s
                ELSE setStatus([s EXCEPT !.transactionId = payload.transactionId],
                               CP_INTRANSACTION)
          [] la = STOP_TRANSACTION ->
                setConnectorStatus(s, 1, CONN_AVAILABLE, FALSE)
          [] OTHER -> s

\* handleCallResult that connects on every boot result
handleCallResult_BootAlwaysConnects(s, payload) ==
    LET la == s.lastAction
    IN  CASE la = BOOT_NOTIFICATION ->
                setStatus(setHeartbeat(s, payload.interval), CP_CONNECTED)
          [] la = AUTHORIZE ->
                IF payload.idTagInfo = ""
                THEN [s EXCEPT !.thrown = TRUE]
                ELSE IF payload.idTagInfo = "Invalid" THEN s
                     ELSE setStatus(s, CP_AUTHORIZED)
          [] la = START_TRANSACTION ->
                IF payload.transactionId = NoTx \/ payload.transactionId = 0
                THEN s
                ELSE setStatus([s EXCEPT !.transactionId = payload.transactionId],
                               CP_INTRANSACTION)
          [] la = STOP_TRANSACTION ->
                setConnectorStatus(s, 1, CONN_AVAILABLE, FALSE)
          [] OTHER -> s

handleCallResult(s, payload) ==
    LET la == s.lastAction
    IN  CASE la = BOOT_NOTIFICATION ->
                IF payload.status = "Accepted"
                THEN setStatus(setHeartbeat(s, payload.interval), CP_CONNECTED)
                ELSE wsDisconnect(s)
          [] la = AUTHORIZE ->
                IF payload.idTagInfo = ""
                THEN [s EXCEPT !.thrown = TRUE]    \* TypeError: idTagInfo undefined
                ELSE IF payload.idTagInfo = "Invalid" THEN s
                     ELSE setStatus(s, CP_AUTHORIZED)
          [] la = START_TRANSACTION ->
                IF payload.transactionId = NoTx \/ payload.transactionId = 0
                THEN s                             \* !transactionId
                ELSE setStatus([s EXCEPT !.transactionId = payload.transactionId],
                               CP_INTRANSACTION)
          [] la = STOP_TRANSACTION ->
                setConnectorStatus(s, 1, CONN_AVAILABLE, FALSE)
          [] OTHER -> s

handleCallError(s) == setStatus(s, CP_ERROR)

\* an incoming CALL [2, id, request, payload]
Request(id, request, tag, tid, msg, c, type) ==
    [id |-> id, request |-> request, idTag |-> tag, transactionId |-> tid,
     requestedMessage |-> msg, connectorId |-> c, type |-> type]

\* handleCallRequest that schedules the remote start whatever the policy
handleCallRequest_IgnoresPolicy(s, r) ==
    LET respOk == CallResult(r.id, "Accepted")
    IN  CASE r.request = "Reset" ->
                wsDisconnect(wsSendData(s, respOk))
          [] r.request = "RemoteStartTransaction" ->
                LET s1 == wsSendData(s, CallResult(r.id, remoteStartStopResponse))
                IN  IF s1.thrown THEN s1
                    ELSE [s1 EXCEPT !.waits =
                             Append(@, Wait("remoteStart", r.idTag,
                                            remoteStartDelaySeconds, 0))]
          [] r.request = "RemoteStopTransaction" ->
                LET s1 == wsSendData(s, CallResult(r.id, remoteStartStopResponse))
                IN  IF remoteStartStopResponse = "Rejected" THEN s1
                    ELSE stopTransactionWithId(s1, r.transactionId, "DEADBEEF")
          [] r.request = "TriggerMessage" ->
                triggerMessage(wsSendData(s, respOk), r.requestedMessage,
                               r.connectorId)
          [] r.request = "ChangeAvailability" ->
                setConnectorAvailability(wsSendData(s, respOk), r.connectorId, r.type)
          [] r.request = "UnlockConnector" ->
                wsSendData(s, respOk)
          [] r.request = "GetConfiguration" ->
                wsSendData(s, CallResult(r.id, "HeartbeatInterval=900"))
          [] OTHER ->
                wsSendData(s, CallError(r.id, "NotImplemented"))

\* handleCallRequest that acknowledges the actions it does not know
handleCallRequest_AcceptsAll(s, r) ==
    LET respOk == CallResult(r.id, "Accepted")
    IN  CASE r.request = "Reset" ->
                wsDisconnect(wsSendData(s, respOk))
          [] r.request = "RemoteStartTransaction" ->
                LET s1 == wsSendData(s, CallResult(r.id, remoteStartStopResponse))
                IN  IF remoteStartStopResponse = "Rejected" \/ s1.thrown THEN s1
                    ELSE [s1 EXCEPT !.waits =
                             Append(@, Wait("remoteStart", r.idTag,
                                            remoteStartDelaySeconds, 0))]
          [] r.request = "RemoteStopTransaction" ->
                LET s1 == wsSendData(s, CallResult(r.id, remoteStartStopResponse))
                IN  IF remoteStartStopResponse = "Rejected" THEN s1
                    ELSE stopTransactionWithId(s1, r.transactionId, "DEADBEEF")
          [] r.request = "TriggerMessage" ->
                triggerMessage(wsSendData(s, respOk), r.requestedMessage,
                               r.connectorId)
          [] r.request = "ChangeAvailability" ->
                setConnectorAvailability(wsSendData(s, respOk), r.connectorId, r.type)
          [] r.request = "UnlockConnector" ->
                wsSendData(s, respOk)
          [] r.request = "GetConfiguration" ->
                wsSendData(s, CallResult(r.id, "HeartbeatInterval=900"))
          [] OTHER ->
                wsSendData(s, respOk)

\* handleCallRequest up to its first await
handleCallRequest(s, r) ==
    LET respOk == CallResult(r.id, "Accepted")
    IN  CASE r.request = "Reset" ->
                wsDisconnect(wsSendData(s, respOk))
          [] r.request = "RemoteStartTransaction" ->
                LET s1 == wsSendData(s, CallResult(r.id, remoteStartStopResponse))
                IN  IF remoteStartStopResponse = "Rejected" \/ s1.thrown THEN s1
                    ELSE [s1 EXCEPT !.waits =
                             Append(@, Wait("remoteStart", r.idTag,
                                            remoteStartDelaySeconds, 0))]
          [] r.request = "RemoteStopTransaction" ->
                LET s1 == wsSendData(s, CallResult(r.id, remoteStartStopResponse))
                IN  IF remoteStartStopResponse = "Rejected" THEN s1
                    ELSE stopTransactionWithId(s1, r.transactionId, "DEADBEEF")
          [] r.request = "TriggerMessage" ->
                triggerMessage(wsSendData(s, respOk), r.requestedMessage,
                               r.connectorId)
          [] r.request = "ChangeAvailability" ->
                setConnectorAvailability(wsSendData(s, respOk), r.connectorId, r.type)
          [] r.request = "UnlockConnector" ->
                wsSendData(s, respOk)
          [] r.request = "GetConfiguration" ->
                wsSendData(s, CallResult(r.id, "HeartbeatInterval=900"))
          [] OTHER ->
                wsSendData(s, CallError(r.id, "NotImplemented"))

\* wsConnect that opens a socket whether or not one is held
wsConnect_OpensAnyway(s) ==
    [s EXCEPT !.websocket = "connecting", !.sockets = @ + 1]

wsConnect(s) ==
    IF s.websocket # "none"
    THEN wsClose(setStatus(s, CP_ERROR))
    ELSE [s EXCEPT !.websocket = "connecting", !.sockets = @ + 1]

onopen(s) ==
    sendBootNotification(setStatus([s EXCEPT !.websocket = "open"], CP_CONNECTING))

\* every readyState leads to setStatus(CP_ERROR); the close event follows
onerror(s) ==
    setStatus([s EXCEPT !.websocket = "closing"], CP_ERROR)

\* onclose that keeps the socket reference after an abnormal close
onclose_KeepsSocketOnError(s, code) ==
    LET s1 == IF s.heartbeat # NoTimer
              THEN [s EXCEPT !.timers = clearInterval(@, s.heartbeat),
                             !.heartbeat = NoTimer]
              ELSE s
    IN  IF code = CLEAN_CLOSE
        THEN [setStatus(s1, CP_DISCONNECTED) EXCEPT !.websocket = "none",
                                                    !.sockets = @ - 1]
        ELSE [setStatus(s1, CP_ERROR) EXCEPT !.websocket = "closing"]

\* onclose that forgets the heartbeat timer without cancelling it
onclose_KeepsTimer(s, code) ==
    LET s1 == [s EXCEPT !.heartbeat = NoTimer]
        s2 == IF code = CLEAN_CLOSE
              THEN setStatus(s1, CP_DISCONNECTED)
              ELSE setStatus(s1, CP_ERROR)
    IN  [s2 EXCEPT !.websocket = "none", !.sockets = @ - 1]

onclose(s, code) ==
    LET s1 == IF s.heartbeat # NoTimer
              THEN [s EXCEPT !.timers = clearInterval(@, s.heartbeat),
                             !.heartbeat = NoTimer]
              ELSE s
        s2 == IF code = CLEAN_CLOSE
              THEN setStatus(s1, CP_DISCONNECTED)
              ELSE setStatus(s1, CP_ERROR)
    IN  [s2 EXCEPT !.websocket = "none", !.sockets = @ - 1]

(* ------------------------------ actions -------------------------------- *)
Config == <<remoteStartStopResponse, remoteStartDelaySeconds, availabilityChangeCb>>

\* the handler that started in the current state
Handler(op) == [NoLast EXCEPT !.op = op]

\* the handler ends in s; the server's queue stays within its bound
Step(s, l) ==
    /\ Len(s.pending) <= MaxPending
    /\ Commit(s)
    /\ last' = [l EXCEPT !.thrown = s.thrown]
    /\ UNCHANGED <<Config, codec>>

\* a handler the user or the server starts, counted against MaxOps
Op(s, l) ==
    /\ ops < MaxOps
    /\ ops' = ops + 1
    /\ Step(s, l)

\* a handler the socket or a timer starts
Event(s, l) ==
    /\ UNCHANGED ops
    /\ Step(s, l)

WsConnect ==
    Op(wsConnect(Cur), Handler("wsConnect"))

WsDisconnect ==
    Op(wsDisconnect(Cur), Handler("wsDisconnect"))

OnOpen ==
    /\ websocket = "connecting"
    /\ Event(onopen(Cur), Handler("onopen"))

OnError ==
    /\ websocket \in {"connecting", "open"}
    /\ Event(onerror(Cur), Handler("onerror"))

\* the close event ends the session: the server answers nothing sent before it
OnClose ==
    /\ websocket # "none"
    /\ \E code \in CloseCodes :
          Event([onclose(Cur, code) EXCEPT !.pending = <<>>],
               [Handler("onclose") EXCEPT !.n = code])

\* requests about the connection and the heartbeat
ConnectionRequests ==
    {Request(i, "Reset", "", NoTx, "", 0, "") : i \in MsgIds}
    \cup {Request(i, "TriggerMessage", "", NoTx, m, 0, "") :
        i \in MsgIds,
        m \in {"BootNotification", "Heartbeat", "DiagnosticStatusNotification"}}

\* requests about transactions
TransactionRequests ==
    {Request(i, "RemoteStartTransaction", t, NoTx, "", 0, "") :
        i \in MsgIds, t \in Tags}
    \cup {Request(i, "RemoteStopTransaction", "", 42, "", 0, "") : i \in MsgIds}

\* requests about connectors, and the requests without effect
ConnectorRequests ==
    {Request(i, q, "", NoTx, "", 0, "") :
        i \in MsgIds, q \in {"UnlockConnector", "GetConfiguration", "UnknownAction"}}
    \cup {Request(i, "TriggerMessage", "", NoTx, m, c, "") :
        i \in MsgIds, c \in ConnIds, m \in {"MeterValues", "StatusNotification"}}
    \cup {Request(i, "ChangeAvailability", "", NoTx, "", c, a) :
        i \in MsgIds, c \in ConnIds, a \in Availabilities}

Requests == ConnectionRequests \cup TransactionRequests \cup ConnectorRequests

\* onmessage, message type 2, for a request of the set R
OnMessageCallOf(R) ==
    /\ websocket \in {"open", "closing"}
    /\ \E r \in R :
          Op(handleCallRequest(Cur, r),
               [Handler("handleCallRequest") EXCEPT
                    !.id = r.id, !.request = r.request, !.c = r.connectorId,
                    !.n = r.transactionId,
                    !.arg = IF r.request = "ChangeAvailability" THEN r.type
                            ELSE IF r.request = "TriggerMessage"
                                 THEN r.requestedMessage ELSE r.idTag])

OnMessageCall == OnMessageCallOf(Requests)

\* onmessage, message type 3: the server answers the oldest CALL
OnMessageResult ==
    /\ websocket \in {"open", "closing"}
    /\ pending # <<>>
    /\ \E p \in ServerPayloads(Head(pending)) :
          Event(handleCallResult([Cur EXCEPT !.pending = Tail(@)], p),
               [Handler("handleCallResult") EXCEPT
                    !.answers = Head(pending), !.la = lastAction,
                    !.n = heartbeat, !.payload = p])

\* onmessage, message type 4
OnMessageError ==
    /\ websocket \in {"open", "closing"}
    /\ pending # <<>>
    /\ Event(handleCallError([Cur EXCEPT !.pending = Tail(@)]),
            [Handler("handleCallError") EXCEPT
                 !.answers = Head(pending), !.la = lastAction])

\* the interval timer of setHeartbeat is due
HeartbeatTimer ==
    \E t \in timers :
       /\ t.remaining = 0
       /\ Event(sendHeartbeat(
                  [Cur EXCEPT !.timers = (@ \ {t}) \cup
                       {[t EXCEPT !.remaining = t.period, !.elapsed = 0]}]),
               [Handler("heartbeatTimer") EXCEPT !.n = t.elapsed])

\* timers that are due run in the order they were set
DueWait(i) ==
    /\ i \in 1..Len(waits)
    /\ waits[i].remaining = 0
    /\ \A j \in 1..(i - 1) : waits[j].remaining # 0

Without(ws, i) == SubSeq(ws, 1, i - 1) \o SubSeq(ws, i + 1, Len(ws))

\* handleCallRequest, RemoteStartTransaction, after its await
RemoteStartResume ==
    \E i \in 1..Len(waits) :
       /\ DueWait(i)
       /\ waits[i].kind = "remoteStart"
       /\ Event(startTransaction([Cur EXCEPT !.waits = Without(@, i)],
                                waits[i].tag, 1),
               [Handler("remoteStartResume") EXCEPT
                    !.arg = waits[i].tag, !.n = waits[i].elapsed])

\* stopTransactionWithId after its first await
StopFinishingResume ==
    \E i \in 1..Len(waits) :
       /\ DueWait(i)
       /\ waits[i].kind = "stopFinishing"
       /\ LET s1 == setConnectorStatus([Cur EXCEPT !.waits = Without(@, i)],
                                       1, CONN_FINISHING, TRUE)
              s2 == IF s1.thrown THEN s1
                    ELSE [s1 EXCEPT !.waits =
                             Append(@, Wait("stopAvailable", "", STOP_WAIT,
                                            waits[i].elapsed))]
          IN  Event(s2, [Handler("stopFinishingResume") EXCEPT
                            !.n = waits[i].elapsed])

\* stopTransactionWithId after its second await
StopAvailableResume ==
    \E i \in 1..Len(waits) :
       /\ DueWait(i)
       /\ waits[i].kind = "stopAvailable"
       /\ Event(setConnectorStatus([Cur EXCEPT !.waits = Without(@, i)],
                                  1, CONN_AVAILABLE, TRUE),
               [Handler("stopAvailableResume") EXCEPT !.n = waits[i].elapsed])

\* one second passes; nothing is due
Tick ==
    /\ timers # {} \/ waits # <<>>
    /\ \A t \in timers : t.remaining > 0
    /\ \A i \in 1..Len(waits) : waits[i].remaining > 0
    /\ timers' = {[t EXCEPT !.remaining = @ - 1, !.elapsed = @ + 1] : t \in timers}
    /\ waits' = [i \in 1..Len(waits) |->
                    [waits[i] EXCEPT !.remaining = @ - 1, !.elapsed = @ + 1]]
    /\ out' = EmptyOut
    /\ last' = Handler("tick")
    /\ UNCHANGED <<websocket, sockets, heartbeat, timerSeq, cpStatus, lastAction,
                   transactionId, connStatus, connAvail, pending, ops, codec>>
    /\ UNCHANGED Config

Authorize ==
    \E tag \in Tags :
       Op(authorize(Cur, tag), [Handler("authorize") EXCEPT !.arg = tag])

SetHeartbeat ==
    \E period \in Intervals :
       Op(setHeartbeat(Cur, period), [Handler("setHeartbeat") EXCEPT !.n = period])

StartTransaction ==
    \E tag \in Tags :
       Op(startTransaction(Cur, tag, 1),
            [Handler("startTransaction") EXCEPT !.arg = tag, !.c = 1])

StopTransaction ==
    \E tag \in Tags :
       Op(stopTransaction(Cur, tag),
            [Handler("stopTransaction") EXCEPT !.arg = tag, !.n = transactionId])

StopTransactionWithId ==
    \E t \in TxIds :
       Op(stopTransactionWithId(Cur, t, "DEADBEEF"),
            [Handler("stopTransactionWithId") EXCEPT !.n = t])

\* setMeterValue(v, true)
SetMeterValue ==
    Op(sendMeterValue(Cur, 1), [Handler("sendMeterValue") EXCEPT !.c = 1])

SetConnectorAvailability ==
    \E c \in ConnIds, a \in Availabilities :
       Op(setConnectorAvailability(Cur, c, a),
            [Handler("setConnectorAvailability") EXCEPT !.c = c, !.arg = a])

SetAvailabilityChangeCallback ==
    /\ ~availabilityChangeCb
    /\ availabilityChangeCb' = TRUE
    /\ out' = EmptyOut
    /\ last' = Handler("setAvailabilityChangeCallback")
    /\ ops < MaxOps
    /\ ops' = ops + 1
    /\ UNCHANGED <<websocket, sockets, heartbeat, timers, timerSeq, cpStatus, lastAction,
                   transactionId, connStatus, connAvail, pending, waits, codec,
                   remoteStartStopResponse, remoteStartDelaySeconds>>

\* the configuration surface: the two fields are assigned directly
SetRemoteStartStopResponse ==
    /\ \E p \in Policies :
          /\ p # remoteStartStopResponse
          /\ remoteStartStopResponse' = p
    /\ out' = EmptyOut
    /\ last' = Handler("setRemoteStartStopResponse")
    /\ ops < MaxOps
    /\ ops' = ops + 1
    /\ UNCHANGED <<websocket, sockets, heartbeat, timers, timerSeq, cpStatus, lastAction,
                   transactionId, connStatus, connAvail, pending, waits, codec,
                   availabilityChangeCb, remoteStartDelaySeconds>>

SetRemoteStartDelaySeconds ==
    /\ \E d \in Delays :
          /\ d # remoteStartDelaySeconds
          /\ remoteStartDelaySeconds' = d
    /\ out' = EmptyOut
    /\ last' = Handler("setRemoteStartDelaySeconds")
    /\ ops < MaxOps
    /\ ops' = ops + 1
    /\ UNCHANGED <<websocket, sockets, heartbeat, timers, timerSeq, cpStatus, lastAction,
                   transactionId, connStatus, connAvail, pending, waits, codec,
                   availabilityChangeCb, remoteStartStopResponse>>

EngineInit ==
    /\ websocket = "none"
    /\ sockets = 0
    /\ heartbeat = NoTimer
    /\ timers = {}
    /\ timerSeq = 0
    /\ remoteStartStopResponse = "Accepted"
    /\ remoteStartDelaySeconds = 0
    /\ availabilityChangeCb = FALSE
    /\ cpStatus = CP_DISCONNECTED
    /\ lastAction = ""
    /\ transactionId = NoTx
    /\ connStatus = [c \in ConnIds |-> CONN_AVAILABLE]
    /\ connAvail = [c \in ConnIds |-> AVAILABITY_OPERATIVE]
    /\ pending = <<>>
    /\ waits = <<>>
    /\ out = EmptyOut
    /\ last = NoLast
    /\ ops = 0

Init ==
    /\ EngineInit
    /\ codec = NoCodec

Next ==
    \/ WsConnect
    \/ WsDisconnect
    \/ OnOpen
    \/ OnError
    \/ OnClose
    \/ OnMessageCall
    \/ OnMessageResult
    \/ OnMessageError
    \/ HeartbeatTimer
    \/ RemoteStartResume
    \/ StopFinishingResume
    \/ StopAvailableResume
    \/ Tick
    \/ Authorize
    \/ SetHeartbeat
    \/ StartTransaction
    \/ StopTransaction
    \/ StopTransactionWithId
    \/ SetMeterValue
    \/ SetConnectorAvailability
    \/ SetAvailabilityChangeCallback
    \/ SetRemoteStartStopResponse
    \/ SetRemoteStartDelaySeconds

Spec == Init /\ [][Next]_vars

\* the socket, its events and the timers: part of every specification
Connection ==
    \/ WsConnect
    \/ WsDisconnect
    \/ OnOpen
    \/ OnError
    \/ OnClose
    \/ OnMessageResult
    \/ OnMessageError
    \/ HeartbeatTimer
    \/ Tick

\* the connection and the heartbeat, with the requests about them
NextHeartbeat ==
    \/ Connection
    \/ Authorize
    \/ SetHeartbeat
    \/ OnMessageCallOf(ConnectionRequests)

SpecHeartbeat == Init /\ [][NextHeartbeat]_vars

\* the transaction lifecycle, started by the user or by the server
NextTransaction ==
    \/ Connection
    \/ RemoteStartResume
    \/ StopFinishingResume
    \/ StopAvailableResume
    \/ StartTransaction
    \/ StopTransaction
    \/ StopTransactionWithId
    \/ OnMessageCallOf(TransactionRequests)
    \/ SetRemoteStartStopResponse
    \/ SetRemoteStartDelaySeconds

SpecTransaction == Init /\ [][NextTransaction]_vars

\* connector status and availability, set by the user or by the server
NextConnector ==
    \/ Connection
    \/ SetMeterValue
    \/ SetConnectorAvailability
    \/ SetAvailabilityChangeCallback
    \/ OnMessageCallOf(ConnectorRequests)

SpecConnector == Init /\ [][NextConnector]_vars

\* the charge-point status: the user's and the server's ways through it
NextStatus ==
    \/ Connection
    \/ RemoteStartResume
    \/ StopFinishingResume
    \/ StopAvailableResume
    \/ Authorize
    \/ StartTransaction
    \/ StopTransaction
    \/ OnMessageCallOf(TransactionRequests)

SpecStatus == Init /\ [][NextStatus]_vars

\* a connection the server drives: the user only connects and disconnects
NextServer ==
    \/ Connection
    \/ OnMessageCallOf(ConnectionRequests)

SpecServer == Init /\ [][NextServer]_vars

\* the CALLs the operations send: meter values 0 and 5, with and without a
\* stored transaction id
MeterReadings == {0, 5}

CodecPayloads ==
    {[action |-> AUTHORIZE, payload |-> AuthorizePayload(tag)] : tag \in Tags}
    \cup {[action |-> BOOT_NOTIFICATION, payload |-> BootNotificationPayload]}
    \cup {[action |-> HEARTBEAT, payload |-> HeartbeatPayload]}
    \cup {[action |-> START_TRANSACTION,
           payload |-> StartTransactionPayload(tag, c, mv)] :
             tag \in Tags, c \in ConnIds \ {0}, mv \in MeterReadings}
    \cup {[action |-> STOP_TRANSACTION,
           payload |-> StopTransactionPayload(tid, tag, mv)] :
             tid \in TxIds \cup {NoTx}, tag \in Tags \cup {""},
             mv \in MeterReadings}
    \cup {[action |-> METERVALUES,
           payload |-> MeterValuesPayload(c, tid, "5")] :
             c \in ConnIds \ {0}, tid \in TxIds \cup {NoTx}}
    \cup {[action |-> STATUSNOTIFICATION,
           payload |-> StatusNotificationPayload(c, st)] :
             c \in ConnIds,
             st \in {CONN_AVAILABLE, CONN_CHARGING, CONN_FINISHING,
                     CONN_UNAVAILABLE}}

\* an operation has built the array [2, id, action, payload]
InitCodec ==
    /\ EngineInit
    /\ \E i \in MsgIds, p \in CodecPayloads :
          codec = CodecCall("call", i, p.action, p.payload, <<>>, NotDelivered)

\* JSON.stringify of the array
Encode ==
    /\ codec.stage = "call"
    /\ codec' = [codec EXCEPT
                    !.stage = "frame",
                    !.frame = EncodeCall(codec.id, codec.action, codec.payload)]
    /\ UNCHANGED <<websocket, sockets, heartbeat, timers, timerSeq, cpStatus,
                   lastAction, transactionId, connStatus, connAvail, pending,
                   waits, out, last, ops>>
    /\ UNCHANGED Config

\* the frame comes back through onmessage
Decode ==
    /\ codec.stage = "frame"
    /\ codec' = [codec EXCEPT !.stage = "delivered",
                              !.delivered = onmessage(codec.frame)]
    /\ UNCHANGED <<websocket, sockets, heartbeat, timers, timerSeq, cpStatus,
                   lastAction, transactionId, connStatus, connAvail, pending,
                   waits, out, last, ops>>
    /\ UNCHANGED Config

NextCodec ==
    \/ Encode
    \/ Decode

SpecCodec == InitCodec /\ [][NextCodec]_vars

(* ------------------------------ claims --------------------------------- *)
\* the frames the last handler passed to wsSendData
SentFrames == {out.sent[i].frame : i \in 1..Len(out.sent)}

\* the last handler passed every frame to an open socket
AllTransmitted == \A i \in 1..Len(out.sent) : out.sent[i].tx = "sent"

ResultOf(action) == last.op = "handleCallResult" /\ last.answers = action

\* C1: once the CALLRESULT that answers a StartTransaction CALL and carries
\* transactionId t has been handled, the charge point is InTransaction, the
\* persisted TransactionId is t and connector 1 is Charging.
C1_StartResultRecorded ==
    ResultOf(START_TRANSACTION) =>
        /\ cpStatus = CP_INTRANSACTION
        /\ transactionId = last.payload.transactionId
        /\ connStatus[1] = CONN_CHARGING

\* the same for the results dispatched as StartTransaction with a non-zero id
C1_NonZeroIdRecorded ==
    ResultOf(START_TRANSACTION) /\ last.la = START_TRANSACTION
        /\ last.payload.transactionId # 0 =>
        /\ cpStatus = CP_INTRANSACTION
        /\ transactionId = last.payload.transactionId
        /\ connStatus[1] = CONN_CHARGING

\* C2: stopTransactionWithId(t) sets the status to Authorized first, before
\* any wait (and the status is Authorized at the wait unless there is no
\* socket, when the send then reports the error); its first wait ends after 1
\* second with connector 1 Finishing, its second after 2 seconds in all with
\* connector 1 Available, each change passed on as one StatusNotification CALL,
\* which is transmitted when the socket is open.
C2_StopSequence ==
    /\ last.op = "stopTransactionWithId" =>
          /\ out.status # <<>> /\ out.status[1] = CP_AUTHORIZED
          /\ out.sent # <<>>
          /\ out.sent[1].frame = Call(STOP_TRANSACTION, -1, "", last.n, "DEADBEEF")
          /\ (out.sent[1].tx # "noconn" => cpStatus = CP_AUTHORIZED)
          /\ (~last.thrown =>
                /\ waits # <<>>
                /\ waits[Len(waits)] = Wait("stopFinishing", "", STOP_WAIT, 0))
    /\ last.op = "stopFinishingResume" =>
          /\ last.n = STOP_WAIT
          /\ connStatus[1] = CONN_FINISHING
          /\ Len(out.sent) = 1
          /\ out.sent[1].frame = Call(STATUSNOTIFICATION, 1, CONN_FINISHING, NoTx, "")
          /\ (websocket = "open" => AllTransmitted)
    /\ last.op = "stopAvailableResume" =>
          /\ last.n = 2 * STOP_WAIT
          /\ connStatus[1] = CONN_AVAILABLE
          /\ Len(out.sent) = 1
          /\ out.sent[1].frame = Call(STATUSNOTIFICATION, 1, CONN_AVAILABLE, NoTx, "")
          /\ (websocket = "open" => AllTransmitted)

\* the second wait of a stop has ended on an open socket
C2_Witness ==
    /\ last.op = "stopAvailableResume"
    /\ last.n = 2 * STOP_WAIT
    /\ out.sent # <<>> /\ AllTransmitted
    /\ connStatus[1] = CONN_AVAILABLE

\* the heartbeat timer setHeartbeat(n) leaves behind
HeartbeatEvery(n) ==
    timers = {[id |-> heartbeat, period |-> n, remaining |-> n, elapsed |-> 0]}

\* the heartbeat timer fired n seconds after it was set or last fired, and a
\* Heartbeat CALL went to wsSendData
HeartbeatSentAfter(n) ==
    /\ last.n = n
    /\ out.sent # <<>>
    /\ out.sent[1].frame = Call(HEARTBEAT, -1, "", NoTx, "")

\* C3: when the CALLRESULT that answers a BootNotification CALL has status
\* Accepted and interval n, the status becomes Connected and a heartbeat timer
\* of period n runs, which sends a Heartbeat CALL every n seconds.
C3_BootAcceptedConnects ==
    /\ ResultOf(BOOT_NOTIFICATION) /\ last.payload.status = "Accepted" =>
          /\ cpStatus = CP_CONNECTED
          /\ HeartbeatEvery(last.payload.interval)
    /\ last.op = "heartbeatTimer" =>
          \E t \in timers : HeartbeatSentAfter(t.period)

\* the same for the results dispatched while PendingAction is BootNotification
C3_DispatchedBootAcceptedConnects ==
    /\ last.op = "handleCallResult" /\ last.la = BOOT_NOTIFICATION
          /\ last.payload.status = "Accepted" =>
          /\ cpStatus = CP_CONNECTED
          /\ HeartbeatEvery(last.payload.interval)
    /\ last.op = "heartbeatTimer" =>
          \E t \in timers : HeartbeatSentAfter(t.period)

\* C4: the PendingAction read when a CALLRESULT is handled is the action of
\* the CALL that the result answers (the server answers the CALLs in order).
C4_ResultDispatchedToItsAction ==
    last.op = "handleCallResult" => last.la = last.answers

\* setConnectorAvailability(c, a) has returned: called by the user, or by the
\* ChangeAvailability request after its acknowledgement
AvailabilitySet(c, a) ==
    /\ \/ last.op = "setConnectorAvailability"
       \/ last.op = "handleCallRequest" /\ last.request = "ChangeAvailability"
    /\ last.c = c
    /\ last.arg = a
    /\ ~last.thrown

\* C5: after setConnectorAvailability(c, Inoperative) has returned, connector c
\* is Unavailable and a StatusNotification CALL for c with status Unavailable
\* went to wsSendData (and to the server when the socket is open).
C5_InoperativeMakesUnavailable ==
    \A c \in ConnIds :
       AvailabilitySet(c, AVAILABITY_INOPERATIVE) =>
          /\ connStatus[c] = CONN_UNAVAILABLE
          /\ Call(STATUSNOTIFICATION, c, CONN_UNAVAILABLE, NoTx, "") \in SentFrames
          /\ (websocket = "open" => AllTransmitted)

\* connector 2 was set Inoperative on an open socket
C5_Witness ==
    /\ AvailabilitySet(2, AVAILABITY_INOPERATIVE)
    /\ last.op = "setConnectorAvailability"
    /\ websocket = "open"
    /\ connStatus[2] = CONN_UNAVAILABLE

\* C6: after setConnectorAvailability(0, X) has returned, the availability of
\* connectors 0, 1 and 2 is X and a registered observer was notified for 0, 1
\* and 2; setConnectorAvailability(c, X) for another c sets the availability
\* of c, notifies for c and changes the availability of no other connector.
C6_AvailabilityCascade ==
    /\ [](\A a \in Availabilities :
            /\ AvailabilitySet(0, a) =>
                  /\ \A c \in {0, 1, 2} : connAvail[c] = a
                  /\ out.avail = IF availabilityChangeCb
                                 THEN <<<<0, a>>, <<1, a>>, <<2, a>>>>
                                 ELSE <<>>
            /\ \A c \in ConnIds \ {0} :
                  AvailabilitySet(c, a) =>
                     /\ connAvail[c] = a
                     /\ out.avail = IF availabilityChangeCb
                                    THEN <<<<c, a>>>> ELSE <<>>)
    /\ [][\A c \in ConnIds \ {0}, a \in Availabilities :
            AvailabilitySet(c, a)' =>
               \A d \in ConnIds \ {c} : connAvail'[d] = connAvail[d]]_vars

\* connector 0 was set Inoperative with an observer registered
C6_Witness ==
    /\ AvailabilitySet(0, AVAILABITY_INOPERATIVE)
    /\ availabilityChangeCb
    /\ Len(out.avail) = 3
    /\ \A c \in {0, 1, 2} : connAvail[c] = AVAILABITY_INOPERATIVE

\* the request of the given name has been handled
RequestHandled(request) ==
    last.op = "handleCallRequest" /\ last.request = request

\* C7: a RemoteStartTransaction CALL with id i handled under the policy
\* Rejected is answered with the one frame [3, i, {status: Rejected}]; it
\* registers no delayed start and adds no CALL to those awaiting an answer, so
\* no StartTransaction follows from it, and it leaves the charge-point status
\* and the connector statuses as they were.
C7_RejectedRemoteStart ==
    [][(RequestHandled("RemoteStartTransaction")'
          /\ remoteStartStopResponse = "Rejected") =>
            /\ Len(out'.sent) = 1
            /\ out'.sent[1].frame = CallResult(last'.id, "Rejected")
            /\ (websocket = "open" => out'.sent[1].tx = "sent")
            /\ out'.status = <<>>
            /\ UNCHANGED <<waits, pending, cpStatus, connStatus, lastAction>>]_vars

\* a remote start was rejected on an open socket
C7_Witness ==
    /\ RequestHandled("RemoteStartTransaction")
    /\ remoteStartStopResponse = "Rejected"
    /\ websocket = "open"
    /\ Len(out.sent) = 1
    /\ out.sent[1] = [frame |-> CallResult(last.id, "Rejected"), tx |-> "sent"]

\* C8: a CALL with id i for an action the engine does not know is answered
\* with exactly one frame, [4, i, "NotImplemented"], and changes no
\* charge-point status, connector status, availability, PendingAction or
\* transaction id.
C8_UnknownActionNotImplemented ==
    [][RequestHandled("UnknownAction")' =>
            /\ Len(out'.sent) = 1
            /\ out'.sent[1].frame = CallError(last'.id, "NotImplemented")
            /\ (websocket = "open" => out'.sent[1].tx = "sent")
            /\ out'.status = <<>>
            /\ out'.avail = <<>>
            /\ UNCHANGED <<cpStatus, connStatus, connAvail, lastAction,
                           transactionId, pending, waits, heartbeat, timers>>]_vars

\* an unknown action was refused on an open socket
C8_Witness ==
    /\ RequestHandled("UnknownAction")
    /\ websocket = "open"
    /\ out.sent = <<[frame |-> CallError(last.id, "NotImplemented"), tx |-> "sent"]>>

\* setHeartbeat(n) has returned: called by the user, or by the result of an
\* accepted BootNotification with interval n
HeartbeatSet(n) ==
    \/ last.op = "setHeartbeat" /\ last.n = n
    \/ /\ last.op = "handleCallResult" /\ last.la = BOOT_NOTIFICATION
       /\ last.payload.status = "Accepted" /\ last.payload.interval = n

\* C9: whatever calls of setHeartbeat there were, at most one heartbeat timer
\* is active and it is the one of the most recent call: after setHeartbeat(n)
\* the only timer has period n, and every firing comes a full period of the
\* only timer after it was set or last fired.
C9_OneHeartbeatTimer ==
    /\ Cardinality(timers) <= 1
    /\ \A t \in timers :
          /\ t.id = heartbeat
          /\ t.remaining + t.elapsed = t.period
    /\ \A n \in Intervals : HeartbeatSet(n) => HeartbeatEvery(n)
    /\ last.op = "heartbeatTimer" =>
          \E t \in timers : timers = {t} /\ HeartbeatSentAfter(t.period)

\* the timer of a second setHeartbeat call has fired
C9_Witness ==
    /\ last.op = "heartbeatTimer"
    /\ timerSeq >= 2
    /\ \E t \in timers : timers = {t} /\ t.id = timerSeq /\ last.n = t.period

\* C10: the close event with code 3001 leaves the status Disconnected, with
\* any other code Error; either way the heartbeat timer is cancelled and the
\* socket reference cleared, so no timer that ran before the close fires
\* after it.
C10_CloseCancelsHeartbeat ==
    /\ last.op = "onclose" =>
          /\ cpStatus = IF last.n = CLEAN_CLOSE THEN CP_DISCONNECTED ELSE CP_ERROR
          /\ heartbeat = NoTimer
          /\ timers = {}
          /\ websocket = "none"
    /\ \A t \in timers : t.id = heartbeat

\* the close event with code 1006 ended a connection whose heartbeat ran
C10_Witness ==
    /\ last.op = "onclose"
    /\ last.n = 1006
    /\ ops = 1
    /\ timerSeq = 1
    /\ cpStatus = CP_ERROR

\* C11: wsConnect called while a socket is held creates no socket, sets the
\* status to Error and closes the socket that is held; at most one socket
\* exists in every state, and one exists exactly when the reference is set.
C11_NoSecondSocket ==
    /\ [](sockets <= 1 /\ (websocket = "none" <=> sockets = 0))
    /\ [][(last'.op = "wsConnect" /\ websocket # "none") =>
            /\ sockets' = sockets
            /\ websocket' = "closing"
            /\ cpStatus' = CP_ERROR
            /\ out'.status = <<CP_ERROR>>
            /\ out'.sent = <<>>]_vars

\* wsConnect was refused while a socket was held
C11_Witness ==
    /\ last.op = "wsConnect"
    /\ out.status = <<CP_ERROR>>
    /\ websocket = "closing"
    /\ sockets = 1
    /\ cpStatus = CP_ERROR

\* C12: wsSendData never throws: every frame a handler passed to it was
\* either forwarded to the open socket or, with no connection, answered by
\* the status Error and not transmitted.
C12_SendNeverThrows ==
    \A i \in 1..Len(out.sent) :
       \/ out.sent[i].tx = "sent"
       \/ out.sent[i].tx = "noconn" /\ cpStatus = CP_ERROR

\* a CALLRESULT whose status is not Accepted was handled while PendingAction
\* was BootNotification
BootRejected ==
    /\ last.op = "handleCallResult"
    /\ last.la = BOOT_NOTIFICATION
    /\ last.payload.status # "Accepted"

\* C13: a rejected BootNotification leaves the status Error and the socket
\* closing, starts no heartbeat timer and sends no further BootNotification.
C13_RejectedBootIsError ==
    BootRejected =>
       /\ cpStatus = CP_ERROR
       /\ websocket = "closing"
       /\ heartbeat = last.n
       /\ out.sent = <<>>

\* the same with the status the handler does set
C13_RejectedBootDisconnects ==
    BootRejected =>
       /\ cpStatus = CP_DISCONNECTED
       /\ websocket = "closing"
       /\ heartbeat = last.n
       /\ out.sent = <<>>

\* the decoded CALL is the CALL that was encoded
RoundTrip ==
    codec.delivered = Delivered(JsNumber(2), JsString(codec.id),
                                JsString(codec.action), codec.payload)

\* C14: decoding the frame that encodes CALL(i, A, P) delivers message type
\* 2, the id i, the action A and the payload P to the request handler.
C14_CallRoundTrip ==
    codec.stage = "delivered" => RoundTrip

\* the same for the payloads whose numbers are all numbers: those built with
\* a transaction id in the session storage
C14_StoredIdRoundTrip ==
    codec.stage = "delivered" =>
       \/ RoundTrip
       \/ \E m \in 1..Len(codec.payload.kids) :
             codec.payload.kids[m] = Member("transactionId", JsNaN)

\* the CALLs the last handler transmitted, in the order it sent them
CallsSent ==
    SelectSeq(out.sent, LAMBDA e : e.frame.mt = 2 /\ e.tx = "sent")

\* C15: a handler that has sent CALLs leaves PendingAction equal to the
\* action of the last CALL it sent.
C15_PendingActionIsLastCall ==
    CallsSent # <<>> =>
       lastAction = CallsSent[Len(CallsSent)].frame.action

\* startTransaction has run, called by the user or at the end of the
\* remote-start delay
StartTransactionRun == last.op \in {"startTransaction", "remoteStartResume"}

\* amended: the same for every handler but startTransaction, which sends
\* StartTransaction, then the StatusNotification for Charging, and leaves
\* PendingAction StartTransaction.
C15_PendingActionButStart ==
    CallsSent # <<>> =>
       IF StartTransactionRun
       THEN /\ lastAction = START_TRANSACTION
            /\ Len(CallsSent) = 2
            /\ CallsSent[1].frame.action = START_TRANSACTION
            /\ CallsSent[2].frame.action = STATUSNOTIFICATION
       ELSE lastAction = CallsSent[Len(CallsSent)].frame.action

\* startTransaction has sent its two CALLs on an open socket
C15_Witness ==
    /\ last.op = "startTransaction"
    /\ Len(CallsSent) = 2
    /\ lastAction = START_TRANSACTION

\* a CALLRESULT was handled while PendingAction was the given action
Dispatched(action) ==
    last.op = "handleCallResult" /\ last.la = action

\* a stop of the transaction has started: by the user, or by an accepted
\* RemoteStopTransaction
StopRun ==
    \/ last.op \in {"stopTransaction", "stopTransactionWithId"}
    \/ RequestHandled("RemoteStopTransaction") /\ remoteStartStopResponse = "Accepted"

C17_AuthorizedIffAccepted ==
    Dispatched(AUTHORIZE) /\ last.payload.idTagInfo # "" =>
       IF last.payload.idTagInfo = "Accepted"
       THEN cpStatus = CP_AUTHORIZED
       ELSE out.status = <<>>

\* the same with the one status the handler tests for
C17_AuthorizedUnlessInvalid ==
    Dispatched(AUTHORIZE) /\ last.payload.idTagInfo # "" =>
       IF last.payload.idTagInfo # "Invalid"
       THEN cpStatus = CP_AUTHORIZED
       ELSE out.status = <<>>

\* C18: between a socket's open and its close the engine calls setHeartbeat
\* at most once: once a heartbeat timer is held, no handler of the engine
\* replaces it before the close event, and handling a TriggerMessage leaves
\* the timer as it is.
C18_PeriodSetOnce ==
    [][/\ (heartbeat # NoTimer /\ last'.op # "onclose") =>
             heartbeat' = heartbeat
       /\ RequestHandled("TriggerMessage")' => UNCHANGED <<heartbeat, timers>>]_vars

\* amended: the engine calls setHeartbeat for every accepted result
\* dispatched as BootNotification, also when a timer is held, and for nothing
\* else; handling a TriggerMessage leaves the timer as it is.
C18_PeriodSetByBootResults ==
    [][/\ (heartbeat' # heartbeat /\ last'.op # "onclose") =>
             /\ Dispatched(BOOT_NOTIFICATION)'
             /\ last'.payload.status = "Accepted"
       /\ (Dispatched(BOOT_NOTIFICATION)' /\ last'.payload.status = "Accepted") =>
             /\ heartbeat' = timerSeq + 1
             /\ timers' = {[id |-> heartbeat',
                             period |-> last'.payload.interval,
                             remaining |-> last'.payload.interval,
                             elapsed |-> 0]}
       /\ RequestHandled("TriggerMessage")' => UNCHANGED <<heartbeat, timers>>]_vars

\* a second accepted boot result of a connection has replaced the timer
C18_Witness ==
    /\ Dispatched(BOOT_NOTIFICATION)
    /\ last.payload.status = "Accepted"
    /\ last.n = 1
    /\ heartbeat = 2
    /\ sockets = 1
    /\ HeartbeatEvery(last.payload.interval)

\* a timed wait has ended and its handler has gone on
WaitResumed ==
    last.op \in {"remoteStartResume", "stopFinishingResume", "stopAvailableResume"}

\* C19: the close event leaves the timed waits in flight; a wait that ends
\* while the transport is closed still makes its sends: none is transmitted,
\* each sets the status to Error by the 'No connection' path, and the handler
\* runs to its end (the first wait of a stop is followed by the second).
C19_WaitsOutliveClose ==
    /\ [](WaitResumed /\ websocket = "none" =>
            /\ out.sent # <<>>
            /\ \A i \in 1..Len(out.sent) : out.sent[i].tx = "noconn"
            /\ Len(SelectSeq(out.status, LAMBDA v : v = CP_ERROR)) = Len(out.sent)
            /\ cpStatus = CP_ERROR
            /\ pending = <<>>
            /\ ~last.thrown
            /\ (last.op = "stopFinishingResume" =>
                  /\ waits # <<>>
                  /\ waits[Len(waits)].kind = "stopAvailable")
            /\ (last.op = "remoteStartResume" =>
                  /\ Len(out.sent) = 2
                  /\ lastAction = START_TRANSACTION))
    /\ [][last'.op = "onclose" => waits' = waits]_vars

\* the plug-in delay of a remote start ended after the connection it came
\* over was closed
C19_Witness ==
    /\ last.op = "remoteStartResume"
    /\ websocket = "none"
    /\ ops = 2
    /\ Len(out.sent) = 2
    /\ out.sent[1].tx = "noconn"
    /\ cpStatus = CP_ERROR

\* C20: the engine stays ready for a new connection: every close event
\* clears the socket reference, whatever came before it; wsConnect called
\* with the reference cleared is not refused and creates a socket; and the
\* open event of a socket sets the status to Connecting and sends one
\* BootNotification CALL.
C20_ReadyToReconnect ==
    /\ [](last.op = "onclose" => websocket = "none" /\ sockets = 0)
    /\ [](last.op = "onopen" =>
            /\ cpStatus = CP_CONNECTING
            /\ websocket = "open"
            /\ lastAction = BOOT_NOTIFICATION
            /\ out.sent = <<[frame |-> Call(BOOT_NOTIFICATION, -1, "", NoTx, ""),
                             tx |-> "sent"]>>)
    /\ [][(last'.op = "wsConnect" /\ websocket = "none") =>
            /\ websocket' = "connecting"
            /\ sockets' = 1
            /\ out'.status = <<>>
            /\ cpStatus' = cpStatus]_vars

\* a second connection has opened after one whose boot was accepted and
\* which was closed since
C20_Witness ==
    /\ last.op = "onopen"
    /\ timerSeq = 1
    /\ heartbeat = NoTimer
    /\ cpStatus = CP_CONNECTING
    /\ pending = <<BOOT_NOTIFICATION>>

\* C21: setConnectorAvailability(c, Operative) changes no connector status
\* and passes no StatusNotification CALL to wsSendData, for c = 0 (with its
\* cascade to connectors 1 and 2) as for c = 1 and c = 2; a connector that
\* Inoperative made Unavailable is still Unavailable afterwards.
C21_OperativeKeepsStatus ==
    [][\A c \in ConnIds :
          AvailabilitySet(c, AVAILABITY_OPERATIVE)' =>
             /\ connStatus' = connStatus
             /\ \A i \in 1..Len(out'.sent) :
                   out'.sent[i].frame.action # STATUSNOTIFICATION]_vars

\* availability of connector 0 was set back to Operative while connectors 1
\* and 2 were Unavailable, and they still are
C21_Witness ==
    /\ AvailabilitySet(0, AVAILABITY_OPERATIVE)
    /\ \A c \in ConnIds : connAvail[c] = AVAILABITY_OPERATIVE
    /\ \A c \in ConnIds : connStatus[c] = CONN_UNAVAILABLE

\* a stop has completed: the result that answers a StopTransaction CALL has
\* been handled, the waits of stopTransactionWithId are over and no other
\* StopTransaction CALL is unanswered
StopCompleted ==
    /\ ResultOf(STOP_TRANSACTION)
    /\ waits = <<>>
    /\ \A i \in 1..Len(pending) : pending[i] # STOP_TRANSACTION

\* C22: once stopTransactionWithId has finished and the StopTransaction result
\* has been handled, no transaction id is persisted any more.
C22_StopClearsTransaction ==
    StopCompleted => transactionId = NoTx

\* what the code does: no handler removes a persisted transaction id
C22_TransactionIdKept ==
    [][transactionId # NoTx => transactionId' # NoTx]_vars

\* C23: at every handler boundary where the engine holds no socket, the
\* charge-point status is Disconnected or Error.
C23_NoSocketNoSession ==
    websocket = "none" => cpStatus \in {CP_DISCONNECTED, CP_ERROR}

\* startTransaction ran with no socket: it set InTransaction first, and each
\* of its two sends set Error
C23_Witness ==
    /\ websocket = "none"
    /\ last.op = "startTransaction"
    /\ out.status = <<CP_INTRANSACTION, CP_ERROR, CP_ERROR>>
    /\ cpStatus = CP_ERROR

\* C24: a startTransaction for connector 1 invoked during the waits of an
\* earlier stopTransactionWithId is not overwritten by that stop: when the
\* stop's second wait ends with connector 1 Charging and the charge point
\* InTransaction on an open socket (the Charging written after the stop set
\* Finishing), connector 1 is still Charging and the charge point still
\* InTransaction afterwards.
C24_StopKeepsNewerTransaction ==
    [][(/\ last'.op = "stopAvailableResume"
        /\ websocket = "open"
        /\ connStatus[1] = CONN_CHARGING
        /\ cpStatus = CP_INTRANSACTION) =>
          /\ connStatus'[1] = CONN_CHARGING
          /\ cpStatus' = CP_INTRANSACTION]_vars

\* what the code does: the end of the stop's second wait sets connector 1
\* Available whatever its status was
C24_StopEndsAvailable ==
    last.op = "stopAvailableResume" => connStatus[1] = CONN_AVAILABLE

====
